---- MODULE Spec2Model ----
(***************************************************************************)
(* composable-rules: the rule tree, the recursive evaluator runHelp and    *)
(* the entry points run / detailedRun of src/index.ts.                     *)
(*                                                                         *)
(* A rule tree, facts and an initial value are drawn from bounded sets.    *)
(* The entry points are applied to them.  Every invocation of a user       *)
(* function (matcher, action, mapper, transformer) and every completed     *)
(* runHelp call is recorded, so that the claims about what is invoked and  *)
(* about the result of inner nodes are state predicates.                   *)
(*                                                                         *)
(* Two further specifications share the module: SpecMatchers calls the     *)
(* matchers built with not / one / all, SpecCurry calls a function made    *)
(* by curryToArity of src/util.ts group of arguments by group.             *)
(***************************************************************************)
EXTENDS Integers, Sequences, FiniteSets, TLC

\* a call of an entry point on a rule tree
VARIABLES rule, fn, facts, initialValue, boomAt, ret, ev

\* a call of a matcher built with not / one / all
VARIABLES matcherFn, mfacts, mvalue, mret, mcalls

\* the calls of a function made by curryToArity
VARIABLES curried, arity, heldArgs, groups, invoked, cret

\* evaluations of one rule tree going on at the same time, runHelp call by
\* runHelp call: where each one is, and its stack of calls that wait
VARIABLES ctl, stack

evalVars == <<rule, fn, facts, initialValue, boomAt, ret, ev>>

matcherVars == <<matcherFn, mfacts, mvalue, mret, mcalls>>

curryVars == <<curried, arity, heldArgs, groups, invoked, cret>>

stepVars == <<ctl, stack>>

vars == <<evalVars, matcherVars, curryVars, stepVars>>

(***************************************************************************)
(* Bounds of the model.                                                    *)
(***************************************************************************)
\* number of nodes of a rule tree
MaxNodes == 4

\* number of nodes of a matcher built with not / one / all
MaxMatcherNodes == 4

\* largest arity the test function is curried to, and largest number of
\* arguments of one call
MaxArity == 3

\* number of nodes of a rule tree evaluated by several callers at a time
MaxSharedNodes == 3

(***************************************************************************)
(* Values of the host language.                                            *)
(***************************************************************************)
\* null, and a non-null reference to x
Null == <<>>
Some(x) == <<x>>

\* no failure; the failure raised by the k-th user function invocation;
\* the TypeError the runtime raises when a property of null is read
NoError == [name |-> "null", at |-> 0]
Boom(k) == [name |-> "Boom", at |-> k]
TypeError == [name |-> "TypeError", at |-> 0]

\* facts: an object with a number property; values: lists
Facts == {1}
Values == {<<>>, <<0>>}

(***************************************************************************)
(* User functions.  Each returns normally; whether an invocation raises    *)
(* is decided per evaluation by boomAt (the index of the raising call).    *)
(***************************************************************************)
always(f, value) == TRUE

Matchers == {"always", "isTwo"}
ApplyMatcher(m, f, value) ==
  CASE m = "always" -> always(f, value)
    [] m = "isTwo" -> f = 2

Actions == {"concat"}
ApplyAction(a, f, value) == Append(value, f)

Mappers == {"swap"}
ApplyMapper(mp, f) == 3 - f

Transformers == {"wrap"}
ApplyTransformer(t, value) == Append(value, 9)

(***************************************************************************)
(* Rule builders.                                                          *)
(***************************************************************************)
PlainRule(matcher, action) ==
  [type |-> "plain", matcher |-> matcher, action |-> action]

injectFacts(mapper, r) ==
  [type |-> "injected", mapper |-> mapper, childRule |-> r]

transformOutput(t, r) ==
  [type |-> "transformed", transformer |-> t, rule |-> r]

applyIf(matcher, r) ==
  [type |-> "if", matcher |-> matcher, rule |-> r]

applyAll(rules) == [type |-> "all", rules |-> rules]

applyFirst(rules) == [type |-> "first", rules |-> rules]

applyChain(rules) == [type |-> "chain", rules |-> rules]

\* the rule trees with exactly n nodes, given the trees with n - 1 nodes and
\* the lists of trees with n - 1 nodes in total
RulesOfSize(n, smaller, lists) ==
  (IF n = 1 THEN {PlainRule(m, a) : m \in Matchers, a \in Actions} ELSE {})
  \cup {injectFacts(mp, r) : mp \in Mappers, r \in smaller}
  \cup {transformOutput(t, r) : t \in Transformers, r \in smaller}
  \cup {applyIf(m, r) : m \in Matchers, r \in smaller}
  \cup {applyAll(l) : l \in lists}
  \cup {applyFirst(l) : l \in lists}
  \cup {applyChain(l) : l \in lists}

\* the lists made of a rule tree of rs followed by a list of ls
Cons(rs, ls) == {<<r>> \o l : r \in rs, l \in ls}

\* RulesN: the rule trees with N nodes; ListsN: the lists of rule trees with
\* N nodes in total.  Each level is built once from the levels below it.
Lists0 == {<<>>}

Rules1 == RulesOfSize(1, {}, Lists0)

Lists1 == Cons(Rules1, Lists0)

Rules2 == IF MaxNodes < 2 THEN {} ELSE RulesOfSize(2, Rules1, Lists1)

Lists2 == Cons(Rules1, Lists1) \cup Cons(Rules2, Lists0)

Rules3 == IF MaxNodes < 3 THEN {} ELSE RulesOfSize(3, Rules2, Lists2)

Lists3 == Cons(Rules1, Lists2) \cup Cons(Rules2, Lists1) \cup Cons(Rules3, Lists0)

Rules4 == IF MaxNodes < 4 THEN {} ELSE RulesOfSize(4, Rules3, Lists3)

Lists4 ==
  IF MaxNodes < 5 THEN {}
  ELSE Cons(Rules1, Lists3) \cup Cons(Rules2, Lists2) \cup Cons(Rules3, Lists1)
       \cup Cons(Rules4, Lists0)

Rules5 == IF MaxNodes < 5 THEN {} ELSE RulesOfSize(5, Rules4, Lists4)

\* the rule trees with at most MaxNodes nodes
Rules == Rules1 \cup Rules2 \cup Rules3 \cup Rules4 \cup Rules5

\* the nestings of the tests: an AllOf of plain rules as the first alternative
\* of a FirstOf, alone and after a matching or non-matching sibling in an AllOf
PlainRules == {r \in Rules1 : r.type = "plain"}

PlainLists ==
  {<<>>} \cup {<<a>> : a \in PlainRules}
         \cup {<<a, b>> : a \in PlainRules, b \in PlainRules}

FirstOfAllOf == {applyFirst(<<applyAll(l), r>>) : l \in PlainLists, r \in PlainRules}

NestedRules ==
  FirstOfAllOf \cup {applyAll(<<m, x>>) : m \in PlainRules, x \in FirstOfAllOf}

(***************************************************************************)
(* The evaluation record threaded through runHelp: the RuleResult state    *)
(* {foundMatch, value} of the code, the failure in flight (thrown), and    *)
(* the record of the evaluation: calls, the user function invocations in   *)
(* order, and visits, the runHelp calls that returned, in order of return. *)
(* A node occurrence is named by its path from the root.                   *)
(***************************************************************************)
State(e) == [foundMatch |-> e.foundMatch, value |-> e.value]

WithState(e, state) ==
  [e EXCEPT !.foundMatch = state.foundMatch, !.value = state.value]

Start(state, b) ==
  [foundMatch |-> state.foundMatch, value |-> state.value,
   thrown |-> NoError, boomAt |-> b, calls |-> <<>>, visits |-> <<>>]

Threw(e) == e.thrown # NoError

\* the invocation of a user function: the k-th invocation raises Boom(k)
\* when k = boomAt, and returns otherwise
Invoke(e, kind, path, args) ==
  LET k == Len(e.calls) + 1
  IN [e EXCEPT !.calls = Append(@, [fn |-> kind, path |-> path, args |-> args]),
               !.thrown = IF k = e.boomAt THEN Boom(k) ELSE NoError]

\* a runHelp call returning: nothing is recorded when a failure passes through
Visit(e, path, type, f, in) ==
  IF Threw(e) THEN e
  ELSE [e EXCEPT !.visits = Append(@, [path |-> path, type |-> type, facts |-> f,
                                       in |-> in, out |-> State(e)])]

RECURSIVE runHelp(_, _, _, _)
RECURSIVE runAllMatchingRules(_, _, _, _, _)
RECURSIVE runFirstMatchingRule(_, _, _, _, _)
RECURSIVE runChainOfRules(_, _, _, _, _)

\* a variant that evaluates the child with the facts of the caller
runInjected_ignoresMapper(r, f, e, path) ==
  LET c == Invoke(e, "mapper", path, <<f>>)
  IN IF Threw(c) THEN c
     ELSE runHelp(r.childRule, f, c, path \o <<1>>)

\* case "injected"
runInjected(r, f, e, path) ==
  LET c == Invoke(e, "mapper", path, <<f>>)
  IN IF Threw(c) THEN c
     ELSE runHelp(r.childRule, ApplyMapper(r.mapper, f), c, path \o <<1>>)

\* a variant that reports a match whatever its child reports
runTransformed_marksMatched(r, f, e, path) ==
  LET c == runHelp(r.rule, f, e, path \o <<1>>)
  IN IF Threw(c) THEN c
     ELSE IF c.foundMatch
          THEN LET t == Invoke(c, "transformer", path, <<c.value>>)
               IN IF Threw(t) THEN t
                  ELSE [t EXCEPT !.value = ApplyTransformer(r.transformer, c.value)]
          ELSE [c EXCEPT !.foundMatch = TRUE]

\* a variant that invokes the transformer before it evaluates the child
runTransformed_transformsFirst(r, f, e, path) ==
  LET t == Invoke(e, "transformer", path, <<e.value>>)
  IN IF Threw(t) THEN t
     ELSE LET c == runHelp(r.rule, f, t, path \o <<1>>)
          IN IF Threw(c) THEN c
             ELSE IF c.foundMatch
                  THEN [c EXCEPT !.value = ApplyTransformer(r.transformer, c.value)]
                  ELSE c

\* case "transformed"
runTransformed(r, f, e, path) ==
  LET c == runHelp(r.rule, f, e, path \o <<1>>)
  IN IF Threw(c) THEN c
     ELSE IF c.foundMatch
          THEN LET t == Invoke(c, "transformer", path, <<c.value>>)
               IN IF Threw(t) THEN t
                  ELSE [t EXCEPT !.value = ApplyTransformer(r.transformer, c.value)]
          ELSE c

\* a variant that evaluates the child whatever the matcher returns
runIf_ignoresMatcher(r, f, e, path) ==
  LET c == Invoke(e, "matcher", path, <<f, e.value>>)
  IN IF Threw(c) THEN c
     ELSE runHelp(r.rule, f, c, path \o <<1>>)

\* case "if"
runIf(r, f, e, path) ==
  LET c == Invoke(e, "matcher", path, <<f, e.value>>)
  IN IF Threw(c) THEN c
     ELSE IF ApplyMatcher(r.matcher, f, e.value)
          THEN runHelp(r.rule, f, c, path \o <<1>>)
          ELSE WithState(c, [foundMatch |-> FALSE, value |-> e.value])

\* a variant that applies the action to the value when the matcher is false
runPlain_actsWithoutMatch(r, f, e, path) ==
  LET c == Invoke(e, "matcher", path, <<f, e.value>>)
  IN IF Threw(c) THEN c
     ELSE IF ApplyMatcher(r.matcher, f, e.value)
          THEN LET a == Invoke(c, "action", path, <<f, e.value>>)
               IN IF Threw(a) THEN a
                  ELSE WithState(a, [foundMatch |-> TRUE,
                                     value |-> ApplyAction(r.action, f, e.value)])
          ELSE WithState(c, [foundMatch |-> FALSE,
                             value |-> ApplyAction(r.action, f, e.value)])

\* a variant that leaves the flag as it came in when the matcher is false
runPlain_keepsFlag(r, f, e, path) ==
  LET c == Invoke(e, "matcher", path, <<f, e.value>>)
  IN IF Threw(c) THEN c
     ELSE IF ApplyMatcher(r.matcher, f, e.value)
          THEN LET a == Invoke(c, "action", path, <<f, e.value>>)
               IN IF Threw(a) THEN a
                  ELSE WithState(a, [foundMatch |-> TRUE,
                                     value |-> ApplyAction(r.action, f, e.value)])
          ELSE c

\* a variant that asks the matcher a second time before the action
runPlain_asksTwice(r, f, e, path) ==
  LET c == Invoke(e, "matcher", path, <<f, e.value>>)
  IN IF Threw(c) THEN c
     ELSE IF ApplyMatcher(r.matcher, f, e.value)
          THEN LET d == Invoke(c, "matcher", path, <<f, e.value>>)
                   a == Invoke(d, "action", path, <<f, e.value>>)
               IN IF Threw(d) THEN d
                  ELSE IF Threw(a) THEN a
                  ELSE WithState(a, [foundMatch |-> TRUE,
                                     value |-> ApplyAction(r.action, f, e.value)])
          ELSE WithState(c, [foundMatch |-> FALSE, value |-> e.value])

\* default case: a plain rule
runPlain(r, f, e, path) ==
  LET c == Invoke(e, "matcher", path, <<f, e.value>>)
  IN IF Threw(c) THEN c
     ELSE IF ApplyMatcher(r.matcher, f, e.value)
          THEN LET a == Invoke(c, "action", path, <<f, e.value>>)
               IN IF Threw(a) THEN a
                  ELSE WithState(a, [foundMatch |-> TRUE,
                                     value |-> ApplyAction(r.action, f, e.value)])
          ELSE WithState(c, [foundMatch |-> FALSE, value |-> e.value])

runHelp(r, f, e, path) ==
  LET out ==
        CASE r.type = "injected" -> runInjected(r, f, e, path)
          [] r.type = "transformed" -> runTransformed(r, f, e, path)
          [] r.type = "if" -> runIf(r, f, e, path)
          [] r.type = "all" -> runAllMatchingRules(r.rules, f, e, path, 1)
          [] r.type = "first" -> runFirstMatchingRule(r.rules, f, e, path, 1)
          [] r.type = "chain" -> runChainOfRules(r.rules, f, e, path, 1)
          [] OTHER -> runPlain(r, f, e, path)
  IN Visit(out, path, r.type, f, State(e))

\* reducer with the value of the child dropped: value: currentState.value
reducer_keepsOldValue(currentState, currentRule, f, path, i) ==
  LET newState == runHelp(currentRule, f, currentState, path \o <<i>>)
  IN IF Threw(newState) THEN newState
     ELSE [newState EXCEPT
             !.foundMatch = currentState.foundMatch \/ newState.foundMatch,
             !.value = currentState.value]

\* the reducer of runAllMatchingRules, applied to the i-th rule
reducer(currentState, currentRule, f, path, i) ==
  LET newState == runHelp(currentRule, f, currentState, path \o <<i>>)
  IN IF Threw(newState) THEN newState
     ELSE [newState EXCEPT
             !.foundMatch = currentState.foundMatch \/ newState.foundMatch]

\* rules.reduce(reducer, state), from the i-th rule on
runAllMatchingRules(rules, f, e, path, i) ==
  IF i > Len(rules) THEN e
  ELSE LET next == reducer(e, rules[i], f, path, i)
       IN IF Threw(next) THEN next
          ELSE runAllMatchingRules(rules, f, next, path, i + 1)

\* a variant that recovers from a failure of a child and tries the next rule
runFirstMatchingRule_recovers(rules, f, e, path, i) ==
  IF Len(rules) = 0 THEN e
  ELSE LET nextRule == Head(rules)
           remainingRules == Tail(rules)
           c == runHelp(nextRule, f, e, path \o <<i>>)
       IN IF Threw(c)
          THEN runFirstMatchingRule(remainingRules, f,
                 [WithState(c, State(e)) EXCEPT !.thrown = NoError], path, i + 1)
          ELSE IF c.foundMatch THEN c
               ELSE runFirstMatchingRule(remainingRules, f, WithState(c, State(e)),
                                         path, i + 1)

\* runFirstMatchingRule handing the state of the child that did not match,
\* not the state it was entered with, to the rules that remain
runFirstMatchingRule_threadsChildState(rules, f, e, path, i) ==
  IF Len(rules) = 0 THEN e
  ELSE LET nextRule == Head(rules)
           remainingRules == Tail(rules)
           c == runHelp(nextRule, f, e, path \o <<i>>)
       IN IF Threw(c) THEN c
          ELSE IF c.foundMatch
               THEN c
               ELSE runFirstMatchingRule(remainingRules, f, c, path, i + 1)

\* runFirstMatchingRule that goes on to the rules that remain after a match
runFirstMatchingRule_noStop(rules, f, e, path, i) ==
  IF Len(rules) = 0 THEN e
  ELSE LET nextRule == Head(rules)
           remainingRules == Tail(rules)
           c == runHelp(nextRule, f, e, path \o <<i>>)
       IN IF Threw(c) THEN c
          ELSE IF c.foundMatch
               THEN runFirstMatchingRule(remainingRules, f, c, path, i + 1)
               ELSE runFirstMatchingRule(remainingRules, f,
                                         WithState(c, State(e)), path, i + 1)

\* rules: the rules still to try; i: the position of the first of them
runFirstMatchingRule(rules, f, e, path, i) ==
  IF Len(rules) = 0 THEN e
  ELSE LET nextRule == Head(rules)
           remainingRules == Tail(rules)
           c == runHelp(nextRule, f, e, path \o <<i>>)
       IN IF Threw(c) THEN c
          ELSE IF c.foundMatch
               THEN c
               ELSE runFirstMatchingRule(remainingRules, f,
                                         WithState(c, State(e)), path, i + 1)

\* runChainOfRules returning the result of the child that did not match
runChainOfRules_childResult(rules, f, e, path, i) ==
  IF Len(rules) = 0 THEN e
  ELSE LET nextRule == Head(rules)
           remainingRules == Tail(rules)
           c == runHelp(nextRule, f, e, path \o <<i>>)
       IN IF Threw(c) THEN c
          ELSE IF c.foundMatch
               THEN runChainOfRules(remainingRules, f, c, path, i + 1)
               ELSE c

\* runChainOfRules that goes on to the rules that remain after a non-match
runChainOfRules_noBreak(rules, f, e, path, i) ==
  IF Len(rules) = 0 THEN e
  ELSE LET nextRule == Head(rules)
           remainingRules == Tail(rules)
           c == runHelp(nextRule, f, e, path \o <<i>>)
       IN IF Threw(c) THEN c
          ELSE IF c.foundMatch
               THEN runChainOfRules(remainingRules, f, c, path, i + 1)
               ELSE runChainOfRules(remainingRules, f,
                                    WithState(c, State(e)), path, i + 1)

\* runChainOfRules handing the state it was entered with, not the state of
\* the child that matched, to the rules that remain
runChainOfRules_originalState(rules, f, e, path, i) ==
  IF Len(rules) = 0 THEN e
  ELSE LET nextRule == Head(rules)
           remainingRules == Tail(rules)
           c == runHelp(nextRule, f, e, path \o <<i>>)
       IN IF Threw(c) THEN c
          ELSE IF c.foundMatch
               THEN runChainOfRules(remainingRules, f,
                                    WithState(c, State(e)), path, i + 1)
               ELSE WithState(c, State(e))

\* rules: the rules still to run; i: the position of the first of them
runChainOfRules(rules, f, e, path, i) ==
  IF Len(rules) = 0 THEN e
  ELSE LET nextRule == Head(rules)
           remainingRules == Tail(rules)
           c == runHelp(nextRule, f, e, path \o <<i>>)
       IN IF Threw(c) THEN c
          ELSE IF c.foundMatch
               THEN runChainOfRules(remainingRules, f, c, path, i + 1)
               ELSE WithState(c, State(e))

(***************************************************************************)
(* Entry points.  The outcome of a call is the failure the call itself     *)
(* raises (raised) or the pair [err, result] it returns; trace is the      *)
(* record of the evaluation behind it.                                     *)
(***************************************************************************)
\* the value null, which is no list an action or a transformer builds
nullValue == <<-1>>

\* detailedRun returning the state reached so far beside the error
detailedRun_keepsPartialResult(r, f, v, b) ==
  LET state == [foundMatch |-> FALSE, value |-> v]
      result == runHelp(r, f, Start(state, b), <<>>)
  IN IF Threw(result)
     THEN [raised |-> NoError, err |-> result.thrown,
           result |-> Some(State(result)), trace |-> result]
     ELSE [raised |-> NoError, err |-> NoError, result |-> Some(State(result)),
           trace |-> result]

detailedRun(r, f, v, b) ==
  LET state == [foundMatch |-> FALSE, value |-> v]
      result == runHelp(r, f, Start(state, b), <<>>)
  IN IF Threw(result)
     THEN [raised |-> NoError, err |-> result.thrown, result |-> Null,
           trace |-> result]
     ELSE [raised |-> NoError, err |-> NoError, result |-> Some(State(result)),
           trace |-> result]

\* const [err, { value }] = detailedRun(...): reading value of null raises
run(r, f, v, b) ==
  LET d == detailedRun(r, f, v, b)
  IN IF d.result = Null
     THEN [raised |-> TypeError, err |-> NoError, result |-> Null,
           trace |-> d.trace]
     ELSE [raised |-> NoError, err |-> d.err, result |-> Some(d.result[1].value),
           trace |-> d.trace]

(***************************************************************************)
(* Matcher combinators.  A matcher is one of the functions of the tests    *)
(* or is built from matchers with not, one and all.  Calling it records    *)
(* the functions of the tests it invokes, in order, each named by its      *)
(* path in the matcher.                                                    *)
(***************************************************************************)
BaseMatchers == {"always", "failMatcher", "isTwo"}

ApplyBase(name, f, value) ==
  IF name = "failMatcher" THEN FALSE ELSE ApplyMatcher(name, f, value)

Base(name) == [type |-> "base", name |-> name]

not(m) == [type |-> "not", matcher |-> m]

one(matchers) == [type |-> "one", matchers |-> matchers]

all(matchers) == [type |-> "all", matchers |-> matchers]

\* the matchers with exactly n nodes, given those with n - 1 nodes and the
\* lists of matchers with n - 1 nodes in total
MatchersOfSize(n, smaller, lists) ==
  (IF n = 1 THEN {Base(b) : b \in BaseMatchers} \cup {one(<<>>), all(<<>>)} ELSE {})
  \cup {not(m) : m \in smaller}
  \cup {one(l) : l \in lists}
  \cup {all(l) : l \in lists}

Matchers1 == MatchersOfSize(1, {}, {})

MatcherLists1 == Cons(Matchers1, {<<>>})

Matchers2 ==
  IF MaxMatcherNodes < 2 THEN {} ELSE MatchersOfSize(2, Matchers1, MatcherLists1)

MatcherLists2 == Cons(Matchers1, MatcherLists1) \cup Cons(Matchers2, {<<>>})

Matchers3 ==
  IF MaxMatcherNodes < 3 THEN {} ELSE MatchersOfSize(3, Matchers2, MatcherLists2)

MatcherLists3 ==
  Cons(Matchers1, MatcherLists2) \cup Cons(Matchers2, MatcherLists1)
  \cup Cons(Matchers3, {<<>>})

Matchers4 ==
  IF MaxMatcherNodes < 4 THEN {} ELSE MatchersOfSize(4, Matchers3, MatcherLists3)

MatcherLists4 ==
  IF MaxMatcherNodes < 5 THEN {}
  ELSE Cons(Matchers1, MatcherLists3) \cup Cons(Matchers2, MatcherLists2)
       \cup Cons(Matchers3, MatcherLists1) \cup Cons(Matchers4, {<<>>})

Matchers5 ==
  IF MaxMatcherNodes < 5 THEN {} ELSE MatchersOfSize(5, Matchers4, MatcherLists4)

\* the matchers with at most MaxMatcherNodes nodes
BuiltMatchers == Matchers1 \cup Matchers2 \cup Matchers3 \cup Matchers4 \cup Matchers5

\* the facts a matcher is called with
MatcherFacts == Facts \cup {ApplyMapper(mp, f) : mp \in Mappers, f \in Facts}

RECURSIVE callMatcher(_, _, _, _, _)
RECURSIVE some(_, _, _, _, _, _)
RECURSIVE every(_, _, _, _, _, _)

\* a variant of not that hands back what the matcher returns
callNot_identity(m, f, value, calls, path) ==
  callMatcher(m.matcher, f, value, calls, path \o <<1>>)

\* not: !matcher(facts, value)
callNot(m, f, value, calls, path) ==
  LET r == callMatcher(m.matcher, f, value, calls, path \o <<1>>)
  IN [ret |-> ~r.ret, calls |-> r.calls]

\* a variant of some that asks every check of the list
RECURSIVE some_asksAll(_, _, _, _, _, _)
some_asksAll(matchers, f, value, calls, path, i) ==
  IF i > Len(matchers) THEN [ret |-> FALSE, calls |-> calls]
  ELSE LET r == callMatcher(matchers[i], f, value, calls, path \o <<i>>)
           rest == some_asksAll(matchers, f, value, r.calls, path, i + 1)
       IN [ret |-> r.ret \/ rest.ret, calls |-> rest.calls]

\* Array.prototype.some from index i: stops at the first check that is true
some(matchers, f, value, calls, path, i) ==
  IF i > Len(matchers) THEN [ret |-> FALSE, calls |-> calls]
  ELSE LET r == callMatcher(matchers[i], f, value, calls, path \o <<i>>)
       IN IF r.ret THEN [ret |-> TRUE, calls |-> r.calls]
          ELSE some(matchers, f, value, r.calls, path, i + 1)

\* Array.prototype.every from index i: stops at the first check that is false
every(matchers, f, value, calls, path, i) ==
  IF i > Len(matchers) THEN [ret |-> TRUE, calls |-> calls]
  ELSE LET r == callMatcher(matchers[i], f, value, calls, path \o <<i>>)
       IN IF r.ret THEN every(matchers, f, value, r.calls, path, i + 1)
          ELSE [ret |-> FALSE, calls |-> r.calls]

\* a variant of one that asks for every check to be true
callOne_every(m, f, value, calls, path) ==
  every(m.matchers, f, value, calls, path, 1)

\* one: matchers.some((check) => check(facts, value))
callOne(m, f, value, calls, path) == some(m.matchers, f, value, calls, path, 1)

\* all: matchers.every((check) => check(facts, value))
callAll(m, f, value, calls, path) == every(m.matchers, f, value, calls, path, 1)

callMatcher(m, f, value, calls, path) ==
  CASE m.type = "not" -> callNot(m, f, value, calls, path)
    [] m.type = "one" -> callOne(m, f, value, calls, path)
    [] m.type = "all" -> callAll(m, f, value, calls, path)
    [] OTHER -> [ret |-> ApplyBase(m.name, f, value), calls |-> Append(calls, path)]

(***************************************************************************)
(* curryToArity.  The curried function is a resolver closure holding the   *)
(* arguments given so far; a call hands it a group of arguments.  An       *)
(* argument is a number; for the entry points the number k stands for the  *)
(* k-th of rule, facts and initialValue.                                   *)
(***************************************************************************)
undefined == 0

NaN == -1

\* the arity run and detailedRun are curried to
EntryArity == 3

\* func of the tests: (a, b, c) => a + b + c, a missing argument is undefined
func(allArgs) ==
  LET arg(i) == IF i <= Len(allArgs) THEN allArgs[i] ELSE undefined
  IN IF \E i \in 1..3 : arg(i) = undefined THEN NaN
     ELSE arg(1) + arg(2) + arg(3)

\* a variant of the resolver that forgets the arguments of the earlier calls
resolver_forgetsArgs(n, a, innerArgs) ==
  LET newArgs == IF n # 0 /\ Len(innerArgs) = 0 THEN <<undefined>> ELSE innerArgs
      allArgs == newArgs
  IN [invoke |-> Len(allArgs) >= n, args |-> allArgs]

\* a variant of the resolver that takes a call without arguments as it is
resolver_noPlaceholder(n, a, innerArgs) ==
  LET allArgs == a \o innerArgs
  IN [invoke |-> Len(allArgs) >= n, args |-> allArgs]

\* the function resolver(...args) returns, called with innerArgs: whether fn is
\* invoked, and the arguments fn or the next resolver gets
resolver(n, a, innerArgs) ==
  LET newArgs == IF n # 0 /\ Len(innerArgs) = 0 THEN <<undefined>> ELSE innerArgs
      allArgs == a \o newArgs
  IN [invoke |-> Len(allArgs) >= n, args |-> allArgs]

\* what a call gave, without the record of the evaluation
Outcome(o) == [raised |-> o.raised, err |-> o.err, result |-> o.result]

\* fn(...allArgs).  An entry point gets rule, facts and initialValue in this
\* order, or its first argument is not a rule: then reading rule.type, or
\* calling rule.matcher, raises a TypeError inside the try of detailedRun.
CallWrapped(name, allArgs, r, f, v) ==
  CASE name = "func" -> func(allArgs)
    [] name = "detailedRun" ->
         IF SubSeq(allArgs, 1, 3) = <<1, 2, 3>>
         THEN Outcome(detailedRun(r, f, v, 0))
         ELSE [raised |-> NoError, err |-> TypeError, result |-> Null]
    [] name = "run" ->
         IF SubSeq(allArgs, 1, 3) = <<1, 2, 3>>
         THEN Outcome(run(r, f, v, 0))
         ELSE [raised |-> TypeError, err |-> NoError, result |-> Null]

(***************************************************************************)
(* Evaluations of one tree that go on at the same time.  Each caller has   *)
(* its own facts and initial value; an evaluation is at a runHelp call it  *)
(* is about to make (eval) or at the return of one (ret), above a stack    *)
(* of the runHelp calls that wait for the call at hand.                    *)
(***************************************************************************)
\* the facts and the initial value of each caller
ProcFacts == <<1, 2>>

ProcValues == << <<>>, <<0>> >>

Procs == DOMAIN ProcFacts

\* a caller that has not called detailedRun yet.  Of caller 1 two more things
\* are kept: prev, the state its last evaluation that ended without failure
\* returned, and among, whether the evaluation of the other caller was under
\* way when its last evaluation ended
IdleCtl(p) ==
  [mode |-> "idle", path |-> <<>>, facts |-> ProcFacts[p],
   state |-> [foundMatch |-> FALSE, value |-> ProcValues[p]],
   err |-> NoError, ncalls |-> 0, visited |-> <<>>, prev |-> Null,
   among |-> FALSE]

StepIdle ==
  /\ ctl = [p \in Procs |-> IdleCtl(p)]
  /\ stack = [p \in Procs |-> <<>>]

(***************************************************************************)
(* The caller of a matcher: it holds a matcher, calls it on facts and a    *)
(* value, looks at what it returned and forgets it.                        *)
(***************************************************************************)
NoMatcherCall ==
  /\ mfacts = 1
  /\ mvalue = <<>>
  /\ mret = Null
  /\ mcalls = <<>>

MatcherIdle == matcherFn = Base("always") /\ NoMatcherCall

\* no call of the curried function made yet
NoCurriedCall ==
  /\ heldArgs = <<>>
  /\ groups = <<>>
  /\ invoked = 0
  /\ cret = Null

CurryIdle == curried = "func" /\ arity = 0 /\ NoCurriedCall

(***************************************************************************)
(* The state machine: the caller holds a rule tree, calls an entry point   *)
(* on it, looks at what the call gave and drops it, any number of times.   *)
(***************************************************************************)
NoCall == [raised |-> NoError, err |-> NoError, result |-> Null]

NoTrace == Start([foundMatch |-> FALSE, value |-> <<>>], 0)

Init ==
  /\ rule \in Rules \cup NestedRules
  /\ fn = "none"
  /\ facts = 1
  /\ initialValue = <<>>
  /\ boomAt = 0
  /\ ret = NoCall
  /\ ev = NoTrace
  /\ MatcherIdle
  /\ CurryIdle
  /\ StepIdle

\* the number of user function invocations of the evaluation without failure
NumCalls(r, f, v) == Len(detailedRun(r, f, v, 0).trace.calls)

Run ==
  /\ fn = "none"
  /\ \E f \in Facts, v \in Values :
       \E b \in 0..NumCalls(rule, f, v) :
         LET o == run(rule, f, v, b)
         IN /\ fn' = "run"
            /\ facts' = f
            /\ initialValue' = v
            /\ boomAt' = b
            /\ ret' = [raised |-> o.raised, err |-> o.err, result |-> o.result]
            /\ ev' = o.trace
            /\ UNCHANGED <<rule, matcherVars, curryVars, stepVars>>

DetailedRun ==
  /\ fn = "none"
  /\ \E f \in Facts, v \in Values :
       \E b \in 0..NumCalls(rule, f, v) :
         LET o == detailedRun(rule, f, v, b)
         IN /\ fn' = "detailedRun"
            /\ facts' = f
            /\ initialValue' = v
            /\ boomAt' = b
            /\ ret' = [raised |-> o.raised, err |-> o.err, result |-> o.result]
            /\ ev' = o.trace
            /\ UNCHANGED <<rule, matcherVars, curryVars, stepVars>>

\* the caller drops the outcome of the call; the rule tree is kept
Discard ==
  /\ fn # "none"
  /\ fn' = "none"
  /\ facts' = 1
  /\ initialValue' = <<>>
  /\ boomAt' = 0
  /\ ret' = NoCall
  /\ ev' = NoTrace
  /\ UNCHANGED <<rule, matcherVars, curryVars, stepVars>>

Next == Run \/ DetailedRun \/ Discard

Spec == Init /\ [][Next]_vars

\* the evaluator at rest, while matchers are called
EvalIdle ==
  /\ rule = applyAll(<<>>)
  /\ fn = "none"
  /\ facts = 1
  /\ initialValue = <<>>
  /\ boomAt = 0
  /\ ret = NoCall
  /\ ev = NoTrace

InitMatchers ==
  /\ matcherFn \in BuiltMatchers
  /\ NoMatcherCall
  /\ EvalIdle
  /\ CurryIdle
  /\ StepIdle

CallMatcher ==
  /\ mret = Null
  /\ \E f \in MatcherFacts, v \in Values :
       LET r == callMatcher(matcherFn, f, v, <<>>, <<>>)
       IN /\ mfacts' = f
          /\ mvalue' = v
          /\ mret' = Some(r.ret)
          /\ mcalls' = r.calls
  /\ UNCHANGED <<matcherFn, evalVars, curryVars, stepVars>>

ForgetMatcherCall ==
  /\ mret # Null
  /\ mfacts' = 1
  /\ mvalue' = <<>>
  /\ mret' = Null
  /\ mcalls' = <<>>
  /\ UNCHANGED <<matcherFn, evalVars, curryVars, stepVars>>

NextMatchers == CallMatcher \/ ForgetMatcherCall

SpecMatchers == InitMatchers /\ [][NextMatchers]_vars

\* the rule trees the curried entry points are called on
CurryRules == Rules1 \cup Rules2

RECURSIVE Sum(_)
Sum(ns) == IF Len(ns) = 0 THEN 0 ELSE Head(ns) + Sum(Tail(ns))

InitCurry ==
  /\ curried \in {"func", "run", "detailedRun"}
  /\ IF curried = "func"
     THEN /\ arity \in 0..MaxArity
          /\ rule = applyAll(<<>>)
          /\ facts = 1
          /\ initialValue = <<>>
     ELSE /\ arity = EntryArity
          /\ rule \in CurryRules
          /\ facts \in Facts
          /\ initialValue \in Values
  /\ NoCurriedCall
  /\ fn = "none"
  /\ boomAt = 0
  /\ ret = NoCall
  /\ ev = NoTrace
  /\ MatcherIdle
  /\ StepIdle

\* the groups of arguments of the next call: any numbers for func; for an
\* entry point the next of rule, facts, initialValue in order, and no
\* argument at all as long as no rule has been given
ArgGroups ==
  IF curried = "func" THEN UNION {[1..n -> {1, 2}] : n \in 0..MaxArity}
  ELSE LET given == Sum(groups)
       IN {[i \in 1..n |-> given + i] : n \in 1..(EntryArity - given)}
          \cup (IF heldArgs = <<>> \/ heldArgs[1] = undefined THEN {<<>>} ELSE {})

CallCurried ==
  /\ cret = Null
  /\ \E innerArgs \in ArgGroups :
       LET r == resolver(arity, heldArgs, innerArgs)
       IN /\ heldArgs' = r.args
          /\ groups' = Append(groups, Len(innerArgs))
          /\ invoked' = IF r.invoke THEN invoked + 1 ELSE invoked
          /\ cret' = IF r.invoke
                     THEN Some(CallWrapped(curried, r.args, rule, facts, initialValue))
                     ELSE Null
  /\ UNCHANGED <<curried, arity, evalVars, matcherVars, stepVars>>

\* the caller starts over with the curried function
StartOver ==
  /\ groups # <<>>
  /\ heldArgs' = <<>>
  /\ groups' = <<>>
  /\ invoked' = 0
  /\ cret' = Null
  /\ UNCHANGED <<curried, arity, evalVars, matcherVars, stepVars>>

NextCurry == CallCurried \/ StartOver

SpecCurry == InitCurry /\ [][NextCurry]_vars

(***************************************************************************)
(* Reading the record of an evaluation.                                    *)
(***************************************************************************)
IsPrefix(p, q) == Len(p) <= Len(q) /\ SubSeq(q, 1, Len(p)) = p

\* the child nodes of a node, in order
Children(r) ==
  CASE r.type \in {"all", "first", "chain"} -> r.rules
    [] r.type = "injected" -> <<r.childRule>>
    [] r.type \in {"transformed", "if"} -> <<r.rule>>
    [] OTHER -> <<>>

\* the node of tree r at a path
RECURSIVE NodeAt(_, _)
NodeAt(r, path) ==
  IF Len(path) = 0 THEN r ELSE NodeAt(Children(r)[Head(path)], Tail(path))

\* the runHelp call on the node at path returned
Visited(path) == \E k \in DOMAIN ev.visits : ev.visits[k].path = path

VisitOf(path) ==
  ev.visits[CHOOSE k \in DOMAIN ev.visits : ev.visits[k].path = path]

\* the user function invocations made by the node at path or by a node below it
CallsUnder(path) == {k \in DOMAIN ev.calls : IsPrefix(path, ev.calls[k].path)}

\* the value with the actions of plain rules applied in order
RECURSIVE ApplyActions(_, _, _)
ApplyActions(rules, f, value) ==
  IF Len(rules) = 0 THEN value
  ELSE ApplyActions(Tail(rules), f, ApplyAction(Head(rules).action, f, value))

AllPlain(rules) == \A i \in DOMAIN rules : rules[i].type = "plain"

(***************************************************************************)
(* runHelp, one call at a time.  A step of an evaluation runs the code of  *)
(* one runHelp call up to the next runHelp call it makes or to its return. *)
(* A user function invoked in a step returns, or raises when raise tells   *)
(* so: raise = 1 for the first function of the step, 2 for the second.     *)
(***************************************************************************)
Conf(c, s) == [ctl |-> c, stack |-> s]

\* the k-th user function of the evaluation raised: the stack is unwound to
\* the catch of detailedRun
Throw(c, k) ==
  Conf([c EXCEPT !.mode = "done", !.err = Boom(k), !.ncalls = k], <<>>)

Return(c, s, state, k) ==
  Conf([c EXCEPT !.mode = "ret", !.state = state, !.ncalls = k], s)

Call(c, s, path, f, state, k) ==
  Conf([c EXCEPT !.mode = "eval", !.path = path, !.facts = f, !.state = state,
                 !.ncalls = k], s)

Frame(type, path, f, idx, state) ==
  [type |-> type, path |-> path, facts |-> f, idx |-> idx, state |-> state]

\* runHelp(rule, facts, state) entered on the node at c.path
evalStep(tree, c0, s, raise) ==
  LET c == [c0 EXCEPT !.visited = Append(@, c0.path)]
      r == NodeAt(tree, c.path)
      n == c.ncalls
      below == c.path \o <<1>>
  IN CASE r.type = "injected" ->
            IF raise = 1 THEN Throw(c, n + 1)
            ELSE Call(c, s, below, ApplyMapper(r.mapper, c.facts), c.state, n + 1)
       [] r.type = "transformed" ->
            Call(c, Append(s, Frame("transformed", c.path, c.facts, 1, c.state)),
                 below, c.facts, c.state, n)
       [] r.type = "if" ->
            IF raise = 1 THEN Throw(c, n + 1)
            ELSE IF ApplyMatcher(r.matcher, c.facts, c.state.value)
                 THEN Call(c, s, below, c.facts, c.state, n + 1)
                 ELSE Return(c, s, [foundMatch |-> FALSE, value |-> c.state.value],
                             n + 1)
       [] r.type \in {"all", "first", "chain"} ->
            IF Len(r.rules) = 0 THEN Return(c, s, c.state, n)
            ELSE Call(c, Append(s, Frame(r.type, c.path, c.facts, 1, c.state)),
                      below, c.facts, c.state, n)
       [] OTHER ->
            IF raise = 1 THEN Throw(c, n + 1)
            ELSE IF ApplyMatcher(r.matcher, c.facts, c.state.value)
                 THEN IF raise = 2 THEN Throw(c, n + 2)
                      ELSE Return(c, s,
                                  [foundMatch |-> TRUE,
                                   value |-> ApplyAction(r.action, c.facts,
                                                         c.state.value)],
                                  n + 2)
                 ELSE Return(c, s, [foundMatch |-> FALSE, value |-> c.state.value],
                             n + 1)

\* the runHelp call a transformOutput node waits for returned r
resumeTransformed(c, rest, fr, node, r, raise) ==
  IF r.foundMatch
  THEN IF raise = 1 THEN Throw(c, c.ncalls + 1)
       ELSE Return(c, rest,
                   [foundMatch |-> r.foundMatch,
                    value |-> ApplyTransformer(node.transformer, r.value)],
                   c.ncalls + 1)
  ELSE Return(c, rest, r, c.ncalls)

\* the reducer of runAllMatchingRules got r for the rule at fr.idx
resumeAll(c, rest, fr, node, r, raise) ==
  LET acc == [foundMatch |-> fr.state.foundMatch \/ r.foundMatch, value |-> r.value]
  IN IF fr.idx < Len(node.rules)
     THEN Call(c, Append(rest, [fr EXCEPT !.idx = @ + 1, !.state = acc]),
               fr.path \o <<fr.idx + 1>>, fr.facts, acc, c.ncalls)
     ELSE Return(c, rest, acc, c.ncalls)

\* a variant of runFirstMatchingRule that tries the rule that did not match
\* again
resumeFirst_retries(c, rest, fr, node, r, raise) ==
  IF r.foundMatch THEN Return(c, rest, r, c.ncalls)
  ELSE Call(c, Append(rest, fr), fr.path \o <<fr.idx>>, fr.facts, fr.state, c.ncalls)

\* runFirstMatchingRule got r for the rule at fr.idx
resumeFirst(c, rest, fr, node, r, raise) ==
  IF r.foundMatch THEN Return(c, rest, r, c.ncalls)
  ELSE IF fr.idx < Len(node.rules)
       THEN Call(c, Append(rest, [fr EXCEPT !.idx = @ + 1]),
                 fr.path \o <<fr.idx + 1>>, fr.facts, fr.state, c.ncalls)
       ELSE Return(c, rest, fr.state, c.ncalls)

\* runChainOfRules got r for the rule at fr.idx
resumeChain(c, rest, fr, node, r, raise) ==
  IF r.foundMatch
  THEN IF fr.idx < Len(node.rules)
       THEN Call(c, Append(rest, [fr EXCEPT !.idx = @ + 1, !.state = r]),
                 fr.path \o <<fr.idx + 1>>, fr.facts, r, c.ncalls)
       ELSE Return(c, rest, r, c.ncalls)
  ELSE Return(c, rest, fr.state, c.ncalls)

\* a runHelp call returned r: to detailedRun when no call waits, else to the
\* call on top of the stack
resumeStep(tree, c, s, r, raise) ==
  IF Len(s) = 0 THEN Conf([c EXCEPT !.mode = "done", !.state = r], s)
  ELSE LET fr == s[Len(s)]
           rest == SubSeq(s, 1, Len(s) - 1)
           node == NodeAt(tree, fr.path)
       IN CASE fr.type = "transformed" -> resumeTransformed(c, rest, fr, node, r, raise)
            [] fr.type = "all" -> resumeAll(c, rest, fr, node, r, raise)
            [] fr.type = "first" -> resumeFirst(c, rest, fr, node, r, raise)
            [] fr.type = "chain" -> resumeChain(c, rest, fr, node, r, raise)

\* a variant in which the state a call returns is kept in one place for all
\* evaluations
returned_shared(p) == ctl[1].state

\* the state the runHelp call of evaluation p returned: its own
returned(p) == ctl[p].state

\* a variant in which an evaluation starts from the state the last one left
seed_leftOver(p) == ctl[p].state

\* const state = { foundMatch: false, value: initialValue }
seed(p) == [foundMatch |-> FALSE, value |-> ProcValues[p]]

\* the rule trees evaluated by several callers at a time
SharedRules ==
  Rules1 \cup (IF MaxSharedNodes < 2 THEN {} ELSE Rules2)
         \cup (IF MaxSharedNodes < 3 THEN {} ELSE Rules3)
         \cup (IF MaxSharedNodes < 4 THEN {} ELSE Rules4)

InitShared ==
  /\ rule \in SharedRules
  /\ fn = "none"
  /\ facts = 1
  /\ initialValue = <<>>
  /\ boomAt = 0
  /\ ret = NoCall
  /\ ev = NoTrace
  /\ MatcherIdle
  /\ CurryIdle
  /\ StepIdle

\* caller p calls detailedRun(rule, facts, initialValue) on the tree
StartEval(p) ==
  /\ ctl[p].mode \in {"idle", "done"}
  /\ ctl' = [ctl EXCEPT ![p] =
               [IdleCtl(p) EXCEPT
                  !.mode = "eval",
                  !.state = seed(p),
                  !.prev = IF p = 1 /\ ctl[p].mode = "done" /\ ctl[p].err = NoError
                           THEN Some(ctl[p].state) ELSE ctl[p].prev]]
  /\ stack' = [stack EXCEPT ![p] = <<>>]
  /\ UNCHANGED <<evalVars, matcherVars, curryVars>>

\* the number of user functions the next step invokes when none raises
asks(tree, c, s, r) ==
  IF c.mode = "eval"
  THEN LET node == NodeAt(tree, c.path)
       IN CASE node.type \in {"injected", "if"} -> 1
            [] node.type \in {"transformed", "all", "first", "chain"} -> 0
            [] OTHER -> IF ApplyMatcher(node.matcher, c.facts, c.state.value)
                        THEN 2 ELSE 1
  ELSE IF Len(s) > 0 /\ s[Len(s)].type = "transformed" /\ r.foundMatch
       THEN 1 ELSE 0

\* the evaluation of caller p goes on by one runHelp call or return, in
\* which none of the user functions invoked raises or one of them does
Step(p) ==
  /\ ctl[p].mode \in {"eval", "ret"}
  /\ \E raise \in 0..asks(rule, ctl[p], stack[p], returned(p)) :
       LET o == IF ctl[p].mode = "eval"
                THEN evalStep(rule, ctl[p], stack[p], raise)
                ELSE resumeStep(rule, ctl[p], stack[p], returned(p), raise)
           busy == \E q \in Procs \ {p} : ctl[q].mode \in {"eval", "ret"}
       IN /\ ctl' = [ctl EXCEPT ![p] =
                       [o.ctl EXCEPT
                          !.among = (p = 1 /\ o.ctl.mode = "done" /\ busy)]]
          /\ stack' = [stack EXCEPT ![p] = o.stack]
  /\ UNCHANGED <<evalVars, matcherVars, curryVars>>

NextShared == \E p \in Procs : StartEval(p) \/ Step(p)

SpecShared == InitShared /\ [][NextShared]_vars

\* caller 1 is the only caller; a call that has started runs on until it
\* returns or raises
NextSolo == StartEval(1) \/ Step(1)

SpecSolo == InitShared /\ [][NextSolo]_vars /\ WF_vars(Step(1))

(***************************************************************************)
(* C1: when a user function raises during evaluation, run does not raise   *)
(* and returns the pair (the raised failure, null).                        *)
(* The code does not do this: run reads the property value of the null     *)
(* result of detailedRun and raises a TypeError itself.                    *)
(***************************************************************************)
C1_RunReturnsErrorPair ==
  (fn = "run" /\ boomAt > 0) =>
     /\ ret.raised = NoError
     /\ ret.err = Boom(boomAt)
     /\ ret.result = Null

C3_ChainReturnsNonMatchResult ==
  \A k \in DOMAIN ev.visits :
    LET v == ev.visits[k]
    IN v.type = "chain" =>
         \A i \in DOMAIN NodeAt(rule, v.path).rules :
           (Visited(v.path \o <<i>>) /\ ~VisitOf(v.path \o <<i>>).out.foundMatch)
             => v.out = VisitOf(v.path \o <<i>>).out

(***************************************************************************)
(* C3 amended: when a ChainOf stops at a non-matching child, its result is *)
(* the state that child was evaluated with: the value accumulated by the   *)
(* earlier children, with matched = true when an earlier child matched and *)
(* the matched flag the chain was entered with when the first child is the *)
(* one that does not match.                                                *)
(***************************************************************************)
C3_ChainReturnsStateBeforeNonMatch ==
  \A k \in DOMAIN ev.visits :
    LET v == ev.visits[k]
    IN v.type = "chain" =>
         \A i \in DOMAIN NodeAt(rule, v.path).rules :
           (Visited(v.path \o <<i>>) /\ ~VisitOf(v.path \o <<i>>).out.foundMatch)
             => /\ v.out = VisitOf(v.path \o <<i>>).in
                /\ v.out.value = VisitOf(v.path \o <<i>>).out.value
                /\ v.out.foundMatch = IF i = 1 THEN v.in.foundMatch ELSE TRUE

\* chain_of([matching, nonMatching, matching]) has run and returned matched = true
C3_Witness ==
  /\ fn = "detailedRun"
  /\ boomAt = 0
  /\ rule.type = "chain"
  /\ Len(rule.rules) = 3
  /\ Visited(<<1>>) /\ VisitOf(<<1>>).out.foundMatch
  /\ Visited(<<2>>) /\ ~VisitOf(<<2>>).out.foundMatch
  /\ ret.result[1].foundMatch
  /\ ret.result[1].value = VisitOf(<<1>>).out.value

(***************************************************************************)
(* C4: the transformer of a Transformed node is invoked only if a rule     *)
(* inside its wrapped child matched during this evaluation (the action of  *)
(* a rule below the node was invoked); otherwise the value passes through  *)
(* unchanged.  The code invokes the transformer of a node evaluated after  *)
(* a matching sibling although no rule inside it matched.                  *)
(***************************************************************************)
C4_TransformerOnlyAfterMatchInside ==
  /\ \A k \in DOMAIN ev.calls :
       ev.calls[k].fn = "transformer" =>
         \E j \in 1..(k - 1) :
           /\ ev.calls[j].fn = "action"
           /\ IsPrefix(ev.calls[k].path, ev.calls[j].path)
  /\ \A k \in DOMAIN ev.visits :
       LET v == ev.visits[k]
       IN (/\ v.type = "transformed"
           /\ ~\E j \in CallsUnder(v.path) : ev.calls[j].fn = "action")
            => v.out.value = v.in.value

(***************************************************************************)
(* C5: the matched flag an AllOf node returns is the logical OR of its     *)
(* children's matched results, whatever state it was entered with.  The    *)
(* code also ORs in the matched flag the node was entered with.            *)
(***************************************************************************)
C5_AllMatchedIsOrOfChildren ==
  \A k \in DOMAIN ev.visits :
    LET v == ev.visits[k]
    IN v.type = "all" =>
         (v.out.foundMatch <=>
            \E i \in DOMAIN NodeAt(rule, v.path).rules :
              /\ Visited(v.path \o <<i>>)
              /\ VisitOf(v.path \o <<i>>).out.foundMatch)

(***************************************************************************)
(* C6: AllOf is a left fold over its children in order.  Every child is    *)
(* evaluated, with the facts of the node and the value the previous child  *)
(* returned (the first child with the value the node was entered with); a  *)
(* child that returns matched = false returns the value unchanged; the     *)
(* matcher and the action of a plain child are invoked with the value the  *)
(* child was entered with, and its result is its action applied to that    *)
(* value exactly when its matcher matched; the node returns the value of   *)
(* the last child.  all_of([ruleA, ruleA]) appends twice.                  *)
(***************************************************************************)
C6_AllOfIsLeftFold ==
  /\ \A k \in DOMAIN ev.visits :
       LET v == ev.visits[k]
           rules == NodeAt(rule, v.path).rules
           n == Len(rules)
           child(i) == VisitOf(v.path \o <<i>>)
       IN v.type = "all" =>
            /\ \A i \in 1..n :
                 /\ Visited(v.path \o <<i>>)
                 /\ child(i).facts = v.facts
                 /\ child(i).in.value =
                      IF i = 1 THEN v.in.value ELSE child(i - 1).out.value
                 /\ ~child(i).out.foundMatch => child(i).out.value = child(i).in.value
                 /\ rules[i].type = "plain" =>
                      /\ \A j \in DOMAIN ev.calls :
                           ev.calls[j].path = v.path \o <<i>> =>
                             ev.calls[j].args = <<v.facts, child(i).in.value>>
                      /\ child(i).out.foundMatch =
                           ApplyMatcher(rules[i].matcher, v.facts, child(i).in.value)
                      /\ child(i).out.value =
                           IF child(i).out.foundMatch
                           THEN ApplyAction(rules[i].action, v.facts, child(i).in.value)
                           ELSE child(i).in.value
            /\ v.out.value = IF n = 0 THEN v.in.value ELSE child(n).out.value
  /\ (/\ fn = "detailedRun"
      /\ boomAt = 0
      /\ rule = applyAll(<<PlainRule("always", "concat"), PlainRule("always", "concat")>>))
       => ret.result = Some([foundMatch |-> TRUE,
                             value |-> initialValue \o <<facts, facts>>])

\* an AllOf of a matching, a non-matching and a matching rule has run
C6_Witness ==
  /\ fn = "detailedRun"
  /\ boomAt = 0
  /\ rule.type = "all"
  /\ Len(rule.rules) = 3
  /\ AllPlain(rule.rules)
  /\ VisitOf(<<1>>).out.foundMatch
  /\ ~VisitOf(<<2>>).out.foundMatch
  /\ VisitOf(<<3>>).out.foundMatch
  /\ ret.result[1].value = initialValue \o <<facts, facts>>

(***************************************************************************)
(* C7: FirstOf evaluates every child it tries with the state (and facts)   *)
(* the node was entered with, returns the result of the first child that   *)
(* returns matched = true, and returns the state it was entered with when  *)
(* no child matches.  first_of([nonMatching, matching]) gives what         *)
(* evaluating matching alone gives.                                        *)
(***************************************************************************)
C7_FirstOfReturnsFirstMatch ==
  /\ \A k \in DOMAIN ev.visits :
       LET v == ev.visits[k]
           n == Len(NodeAt(rule, v.path).rules)
           child(i) == VisitOf(v.path \o <<i>>)
           tried == {i \in 1..n : Visited(v.path \o <<i>>)}
           matched == {i \in tried : child(i).out.foundMatch}
       IN v.type = "first" =>
            /\ \A i \in tried : child(i).in = v.in /\ child(i).facts = v.facts
            /\ matched # {} =>
                 LET m == CHOOSE i \in matched : \A j \in matched : i <= j
                 IN v.out = child(m).out /\ tried = 1..m
            /\ matched = {} => (tried = 1..n /\ v.out = v.in)
  /\ (/\ fn # "none"
      /\ boomAt = 0
      /\ rule.type = "first"
      /\ Len(rule.rules) = 2
      /\ ~VisitOf(<<1>>).out.foundMatch)
       => ret.result = (IF fn = "run"
                        THEN run(rule.rules[2], facts, initialValue, 0)
                        ELSE detailedRun(rule.rules[2], facts, initialValue, 0)).result

\* first_of([nonMatching, matching]) has run
C7_Witness ==
  /\ fn = "detailedRun"
  /\ boomAt = 0
  /\ rule.type = "first"
  /\ Len(rule.rules) = 2
  /\ ~VisitOf(<<1>>).out.foundMatch
  /\ VisitOf(<<2>>).out.foundMatch
  /\ ret.result[1].foundMatch

\* the path of the parent of the node at a path, and the position of the node
\* among the children of its parent
Parent(path) == SubSeq(path, 1, Len(path) - 1)
Position(path) == path[Len(path)]

\* a user function of a child of the node at path p, after its i-th child, was invoked
LaterChildInvoked(p, i) ==
  \E k \in DOMAIN ev.calls :
    /\ IsPrefix(p, ev.calls[k].path)
    /\ Len(ev.calls[k].path) > Len(p)
    /\ ev.calls[k].path[Len(p) + 1] > i

(***************************************************************************)
(* C8: in a FirstOf, once a child has returned matched = true, no user     *)
(* function of a later child is invoked.                                   *)
(***************************************************************************)
C8_FirstOfStopsAfterMatch ==
  \A k \in DOMAIN ev.visits :
    LET c == ev.visits[k]
    IN (/\ Len(c.path) > 0
        /\ NodeAt(rule, Parent(c.path)).type = "first"
        /\ c.out.foundMatch)
         => ~LaterChildInvoked(Parent(c.path), Position(c.path))

\* first_of([matching, matching]) has run: only the first rule was invoked
C8_Witness ==
  /\ fn = "detailedRun"
  /\ boomAt = 0
  /\ rule.type = "first"
  /\ Len(rule.rules) = 2
  /\ AllPlain(rule.rules)
  /\ ApplyMatcher(rule.rules[2].matcher, facts, initialValue)
  /\ VisitOf(<<1>>).out.foundMatch
  /\ Len(ev.calls) = 2

(***************************************************************************)
(* C9: in a ChainOf of plain rules, once the matcher of a rule returns     *)
(* false, no matcher and no action of a later rule of the chain is         *)
(* invoked, and the chain returns the value made by the actions of the     *)
(* rules before that rule, applied in order.                               *)
(***************************************************************************)
C9_ChainOfPlainStopsAtNonMatch ==
  \A k \in DOMAIN ev.visits :
    LET c == ev.visits[k]
        p == Parent(c.path)
        i == Position(c.path)
    IN (/\ Len(c.path) > 0
        /\ NodeAt(rule, p).type = "chain"
        /\ AllPlain(NodeAt(rule, p).rules)
        /\ ~c.out.foundMatch)
         => /\ ~LaterChildInvoked(p, i)
            /\ Visited(p)
            /\ VisitOf(p).out.value =
                 ApplyActions(SubSeq(NodeAt(rule, p).rules, 1, i - 1),
                              VisitOf(p).facts, VisitOf(p).in.value)

\* chain_of([matching, nonMatching, matching]) has run: the third rule was not invoked
C9_Witness ==
  /\ fn = "detailedRun"
  /\ boomAt = 0
  /\ rule.type = "chain"
  /\ Len(rule.rules) = 3
  /\ AllPlain(rule.rules)
  /\ VisitOf(<<1>>).out.foundMatch
  /\ Visited(<<2>>) /\ ~VisitOf(<<2>>).out.foundMatch
  /\ rule.rules[3].matcher = "always"
  /\ Len(ev.calls) = 3
  /\ ret.result[1].value = Append(initialValue, facts)

(***************************************************************************)
(* C10: a non-empty ChainOf whose children all match feeds the state each  *)
(* child returns into the next child and returns the state of the last     *)
(* child, with matched = true; for plain children, the value is the        *)
(* actions of all of them applied in order.                                *)
(***************************************************************************)
C10_ChainOfAllMatch ==
  \A k \in DOMAIN ev.visits :
    LET v == ev.visits[k]
        rules == NodeAt(rule, v.path).rules
        n == Len(rules)
        child(i) == VisitOf(v.path \o <<i>>)
    IN (/\ v.type = "chain"
        /\ n > 0
        /\ \A i \in 1..n : Visited(v.path \o <<i>>) /\ child(i).out.foundMatch)
         => /\ \A i \in 1..n :
                 child(i).in = IF i = 1 THEN v.in ELSE child(i - 1).out
            /\ v.out = child(n).out
            /\ v.out.foundMatch
            /\ AllPlain(rules) =>
                 v.out.value = ApplyActions(rules, v.facts, v.in.value)

\* chain_of of two matching rules, and of more, has run
C10_Witness ==
  /\ fn = "detailedRun"
  /\ boomAt = 0
  /\ rule.type = "chain"
  /\ Len(rule.rules) >= 2
  /\ AllPlain(rule.rules)
  /\ \A i \in DOMAIN rule.rules : Visited(<<i>>) /\ VisitOf(<<i>>).out.foundMatch
  /\ ret.result = Some([foundMatch |-> TRUE,
                        value |-> initialValue \o <<facts, facts>>])

C12_DetailedRunNullWhenNoMatch ==
  (/\ fn = "detailedRun"
   /\ boomAt = 0
   /\ \A k \in DOMAIN ev.calls : ev.calls[k].fn # "action")
     => ret.result = Some([foundMatch |-> FALSE, value |-> nullValue])

(***************************************************************************)
(* C13: a plain rule whose matcher returns true returns matched = true     *)
(* and the value action(facts, state.value), the action being invoked      *)
(* once; when the matcher returns false it returns matched = false and     *)
(* the value unchanged, and the action is not invoked.                     *)
(***************************************************************************)
C13_PlainRule ==
  \A k \in DOMAIN ev.visits :
    LET v == ev.visits[k]
        r == NodeAt(rule, v.path)
        acts == {j \in DOMAIN ev.calls :
                   ev.calls[j].path = v.path /\ ev.calls[j].fn = "action"}
    IN v.type = "plain" =>
         IF ApplyMatcher(r.matcher, v.facts, v.in.value)
         THEN /\ v.out = [foundMatch |-> TRUE,
                          value |-> ApplyAction(r.action, v.facts, v.in.value)]
              /\ Cardinality(acts) = 1
              /\ \A j \in acts : ev.calls[j].args = <<v.facts, v.in.value>>
         ELSE /\ v.out = [foundMatch |-> FALSE, value |-> v.in.value]
              /\ acts = {}

\* a plain rule that matched, and one that was entered with matched = true
\* and a built-up value and did not match
C13_Witness ==
  /\ fn # "none"
  /\ boomAt = 0
  /\ rule.type = "all"
  /\ Len(rule.rules) = 2
  /\ AllPlain(rule.rules)
  /\ Visited(<<>>)
  /\ VisitOf(<<1>>).out = [foundMatch |-> TRUE, value |-> <<0, 1>>]
  /\ VisitOf(<<2>>).in = [foundMatch |-> TRUE, value |-> <<0, 1>>]
  /\ VisitOf(<<2>>).out = [foundMatch |-> FALSE, value |-> <<0, 1>>]
  /\ Len(ev.calls) = 3

\* the facts in scope at the node at a path: the facts of the caller with the
\* mappers of the ScopedFacts nodes above the node applied, outermost first
RECURSIVE FactsAt(_, _, _)
FactsAt(r, path, f) ==
  IF Len(path) = 0 THEN f
  ELSE FactsAt(Children(r)[Head(path)], Tail(path),
               IF r.type = "injected" THEN ApplyMapper(r.mapper, f) ELSE f)

(***************************************************************************)
(* C14: a ScopedFacts node evaluates its child with mapper(facts); the     *)
(* substituted facts are seen only inside its subtree: every node is       *)
(* evaluated with, and every matcher, action and mapper is handed, the     *)
(* facts of the caller transformed by the mappers of the ScopedFacts       *)
(* nodes that enclose it and by no other, so siblings and parents keep     *)
(* the facts of their own scope.                                           *)
(***************************************************************************)
C14_FactsAreScoped ==
  /\ \A k \in DOMAIN ev.visits :
       ev.visits[k].facts = FactsAt(rule, ev.visits[k].path, facts)
  /\ \A k \in DOMAIN ev.calls :
       ev.calls[k].fn \in {"matcher", "action", "mapper"} =>
         ev.calls[k].args[1] = FactsAt(rule, ev.calls[k].path, facts)

\* all_of([scoped(swap, rule), rule]): the rule inside sees the swapped facts,
\* the sibling after it and the parent see the facts of the caller
C14_Witness ==
  /\ fn # "none"
  /\ boomAt = 0
  /\ rule.type = "all"
  /\ Len(rule.rules) = 2
  /\ rule.rules[1].type = "injected"
  /\ rule.rules[1].childRule.type = "plain"
  /\ rule.rules[2].type = "plain"
  /\ Visited(<<>>)
  /\ VisitOf(<<1, 1>>).facts = ApplyMapper(rule.rules[1].mapper, facts)
  /\ VisitOf(<<1, 1>>).facts # facts
  /\ VisitOf(<<1>>).facts = facts
  /\ VisitOf(<<2>>).facts = facts
  /\ VisitOf(<<>>).facts = facts
  /\ VisitOf(<<1, 1>>).out.foundMatch # VisitOf(<<2>>).out.foundMatch

(***************************************************************************)
(* C15: a Conditional whose matcher returns false returns matched = false  *)
(* and the value unchanged, and no user function of its child is invoked;  *)
(* when the matcher returns true its result is the result of evaluating    *)
(* the child directly with the same facts and state.                       *)
(***************************************************************************)
C15_Conditional ==
  \A k \in DOMAIN ev.visits :
    LET v == ev.visits[k]
        r == NodeAt(rule, v.path)
        below == v.path \o <<1>>
    IN v.type = "if" =>
         IF ApplyMatcher(r.matcher, v.facts, v.in.value)
         THEN /\ Visited(below)
              /\ VisitOf(below).facts = v.facts
              /\ VisitOf(below).in = v.in
              /\ v.out = VisitOf(below).out
              /\ v.out = State(runHelp(r.rule, v.facts, Start(v.in, 0), <<>>))
         ELSE /\ v.out = [foundMatch |-> FALSE, value |-> v.in.value]
              /\ ~Visited(below)
              /\ CallsUnder(below) = {}

\* apply_if(true matcher, apply_if(false matcher, matching rule)): the outer
\* node returns what its child returns, the inner one does not ask its child
C15_Witness ==
  /\ fn # "none"
  /\ boomAt = 0
  /\ initialValue = <<0>>
  /\ rule.type = "if"
  /\ rule.matcher = "always"
  /\ rule.rule.type = "if"
  /\ rule.rule.matcher = "isTwo"
  /\ rule.rule.rule.type = "plain"
  /\ rule.rule.rule.matcher = "always"
  /\ Visited(<<>>)
  /\ Visited(<<1>>)
  /\ ~Visited(<<1, 1>>)
  /\ VisitOf(<<>>).out = VisitOf(<<1>>).out
  /\ VisitOf(<<1>>).out = [foundMatch |-> FALSE, value |-> <<0>>]
  /\ Len(ev.calls) = 2

(***************************************************************************)
(* C16: no node recovers from a failure: after a user function has raised  *)
(* no further user function is invoked (FirstOf does not try the next      *)
(* alternative, AllOf and ChainOf do not go on), and the failure that      *)
(* reaches the entry point is the one that was raised.                     *)
(***************************************************************************)
C16_NoLocalRecovery ==
  (fn # "none" /\ boomAt > 0) =>
     /\ Len(ev.calls) = boomAt
     /\ ev.thrown = Boom(boomAt)
     /\ ~Visited(<<>>)
     /\ fn = "detailedRun" => ret.err = Boom(boomAt)

\* the first rule of a FirstOf, of an AllOf or of a ChainOf raised and the
\* rules after it, which the evaluation without failure invokes, were not asked
C16_Witness ==
  /\ fn = "detailedRun"
  /\ rule.type \in {"first", "all", "chain"}
  /\ Len(rule.rules) >= 2
  /\ boomAt > 0
  /\ ev.calls[boomAt].path = <<1>>
  /\ \E k \in DOMAIN detailedRun(rule, facts, initialValue, 0).trace.calls :
       detailedRun(rule, facts, initialValue, 0).trace.calls[k].path[1] = 2
  /\ ~LaterChildInvoked(<<>>, 1)
  /\ ret.err = Boom(boomAt)

(***************************************************************************)
(* C17: a FirstOf with an AllOf child selects that AllOf if and only if    *)
(* at least one of the rules of the AllOf matched, whether or not the last *)
(* rule of the AllOf matched: when one matched, the FirstOf returns the    *)
(* state the AllOf built up and no later alternative is evaluated; when    *)
(* none matched, the FirstOf goes on to the alternative after the AllOf.   *)
(* The code does not do this when the FirstOf is entered with              *)
(* matched = true: the AllOf hands that flag back (see C5) and the FirstOf *)
(* takes it for a match.                                                   *)
(***************************************************************************)
C17_FirstOfSelectsAllOfIffOneMatched ==
  \A k \in DOMAIN ev.visits :
    LET c == ev.visits[k]
        p == Parent(c.path)
        i == Position(c.path)
        n == Len(NodeAt(rule, c.path).rules)
        oneMatched == \E j \in 1..n : /\ Visited(c.path \o <<j>>)
                                      /\ VisitOf(c.path \o <<j>>).out.foundMatch
    IN (/\ boomAt = 0
        /\ c.type = "all"
        /\ Len(c.path) > 0
        /\ NodeAt(rule, p).type = "first")
         => IF oneMatched
            THEN /\ VisitOf(p).out = c.out
                 /\ ~LaterChildInvoked(p, i)
            ELSE i < Len(NodeAt(rule, p).rules) => Visited(p \o <<i + 1>>)

\* what a matcher returns on the facts and the value of the call at hand
Returns(m) == callMatcher(m, mfacts, mvalue, <<>>, <<>>).ret

(***************************************************************************)
(* C18: not(m) returns the logical negation of what m returns on the same  *)
(* facts and value, and not(not(m)) returns what m returns.                *)
(***************************************************************************)
C18_NotNegates ==
  (mret # Null /\ matcherFn.type = "not") =>
     /\ mret = Some(~Returns(matcherFn.matcher))
     /\ matcherFn.matcher.type = "not" => mret = Some(Returns(matcherFn.matcher.matcher))

\* not(not(m)) was called, for a matcher m that returns true on these facts
\* and false on others
C18_Witness ==
  /\ matcherFn.type = "not"
  /\ matcherFn.matcher.type = "not"
  /\ matcherFn.matcher.matcher = Base("isTwo")
  /\ mfacts = 2
  /\ mret = Some(TRUE)
  /\ mcalls = <<<<1, 1>>>>

(***************************************************************************)
(* C19: one(ms) returns true if and only if at least one matcher of ms     *)
(* returns true on the facts and the value, all(ms) returns true if and    *)
(* only if every matcher of ms does; for the empty list one returns false  *)
(* and all returns true.                                                   *)
(***************************************************************************)
C19_OneAndAll ==
  /\ (mret # Null /\ matcherFn.type = "one") =>
       /\ mret = Some(\E i \in DOMAIN matcherFn.matchers : Returns(matcherFn.matchers[i]))
       /\ matcherFn.matchers = <<>> => mret = Some(FALSE)
  /\ (mret # Null /\ matcherFn.type = "all") =>
       /\ mret = Some(\A i \in DOMAIN matcherFn.matchers : Returns(matcherFn.matchers[i]))
       /\ matcherFn.matchers = <<>> => mret = Some(TRUE)

\* one of a false and a true matcher returned true, where all of the two
\* returns false
C19_Witness ==
  /\ matcherFn.type = "one"
  /\ Len(matcherFn.matchers) = 2
  /\ mret = Some(TRUE)
  /\ ~Returns(matcherFn.matchers[1])
  /\ Returns(matcherFn.matchers[2])
  /\ ~Returns(all(matcherFn.matchers))

(***************************************************************************)
(* C20: run and detailedRun take rule, facts and initialValue in any       *)
(* grouping, f(a)(b)(c), f(a, b)(c), f(a)(b, c), f(a, b, c): the wrapped   *)
(* function is invoked once, at the call with which the number of          *)
(* arguments given reaches 3 and not before, and the result is that of     *)
(* the entry point applied to the three arguments, whatever the grouping.  *)
(***************************************************************************)
C20_AnyGrouping ==
  (/\ curried \in {"run", "detailedRun"}
   /\ \A i \in DOMAIN groups : groups[i] > 0)
     => /\ invoked = IF Sum(groups) >= EntryArity THEN 1 ELSE 0
        /\ invoked = 0 => cret = Null
        /\ invoked = 1 =>
             /\ Sum(SubSeq(groups, 1, Len(groups) - 1)) < EntryArity
             /\ heldArgs = <<1, 2, 3>>
             /\ cret = Some(Outcome(IF curried = "run"
                                    THEN run(rule, facts, initialValue, 0)
                                    ELSE detailedRun(rule, facts, initialValue, 0)))

\* run(rule)(facts, initialValue) on a rule that matches
C20_Witness ==
  /\ curried = "run"
  /\ groups = <<1, 2>>
  /\ invoked = 1
  /\ rule.type = "plain"
  /\ initialValue = <<0>>
  /\ cret = Some([raised |-> NoError, err |-> NoError, result |-> Some(<<0, 1>>)])

(***************************************************************************)
(* C21: a function curried to an arity n > 0 and called with no argument   *)
(* again and again takes each such call as one argument undefined: the     *)
(* wrapped function is invoked at the n-th call at the latest, on          *)
(* undefined arguments, and no chain of calls of the curried function is   *)
(* longer than n.                                                          *)
(***************************************************************************)
C21_EmptyCallsTerminate ==
  arity > 0 =>
    /\ Len(groups) <= arity
    /\ Len(groups) = arity => invoked = 1
    /\ (\A i \in DOMAIN groups : groups[i] = 0) =>
         /\ heldArgs = [i \in DOMAIN groups |-> undefined]
         /\ invoked = IF Len(groups) = arity THEN 1 ELSE 0
         /\ (invoked = 1 /\ curried = "func") => cret = Some(NaN)
         /\ (invoked = 1 /\ curried = "detailedRun") =>
              cret = Some([raised |-> NoError, err |-> TypeError, result |-> Null])

\* curriedFunc()()() of the tests has returned NaN
C21_Witness ==
  /\ curried = "func"
  /\ arity = 3
  /\ groups = <<0, 0, 0>>
  /\ heldArgs = <<undefined, undefined, undefined>>
  /\ invoked = 1
  /\ cret = Some(NaN)

\* an action was invoked by the node at path or by a node below it
ActionUnder(path) == \E k \in CallsUnder(path) : ev.calls[k].fn = "action"

(***************************************************************************)
(* C23: detailedRun, which starts from matched = false, returns            *)
(* matched = true if and only if the action of at least one plain rule     *)
(* was invoked during the evaluation.                                      *)
(***************************************************************************)
C23_MatchedIffActionInvoked ==
  (fn = "detailedRun" /\ boomAt = 0) =>
     (ret.result[1].foundMatch <=> ActionUnder(<<>>))

\* an action was invoked in a nested rule and the nodes evaluated after it
\* did not match: the result still has matched = true
C23_Witness ==
  /\ fn = "detailedRun"
  /\ boomAt = 0
  /\ Len(ev.visits) >= 4
  /\ ActionUnder(<<1>>)
  /\ ~ev.visits[Len(ev.visits) - 1].out.foundMatch
  /\ ret.result[1].foundMatch

(***************************************************************************)
(* C24: whatever state a FirstOf is entered with, its result has           *)
(* matched = true only if one of its children returned matched = true.     *)
(* The code does not do this: a FirstOf none of whose children matched     *)
(* returns the state it was entered with, flag included.                   *)
(***************************************************************************)
C24_FirstOfMatchedOnlyByChild ==
  \A k \in DOMAIN ev.visits :
    LET v == ev.visits[k]
        n == Len(NodeAt(rule, v.path).rules)
    IN (v.type = "first" /\ v.out.foundMatch)
         => \E i \in 1..n : /\ Visited(v.path \o <<i>>)
                            /\ VisitOf(v.path \o <<i>>).out.foundMatch

(***************************************************************************)
(* C25: in a ChainOf, a child in which the matcher of no rule matched      *)
(* ends the chain, whatever the variant of the child and also when         *)
(* earlier children of the chain matched: no function of a later child of  *)
(* the chain is invoked.                                                   *)
(* The code does not do this for a child that is an AllOf, a FirstOf or a  *)
(* ChainOf entered with matched = true: the child hands the flag back and  *)
(* the chain goes on.                                                      *)
(***************************************************************************)
C25_ChainStopsAtAnyNonMatch ==
  \A k \in DOMAIN ev.visits :
    LET c == ev.visits[k]
    IN (/\ Len(c.path) > 0
        /\ NodeAt(rule, Parent(c.path)).type = "chain"
        /\ ~ActionUnder(c.path))
         => ~LaterChildInvoked(Parent(c.path), Position(c.path))

\* call k of the record comes before call l in the left-to-right, depth-first
\* order of the tree: a node's matcher or mapper, then its children in list
\* order, then its action or transformer
InTreeOrder(k, l) ==
  LET p == ev.calls[k].path
      q == ev.calls[l].path
      first == {"matcher", "mapper"}
      last == {"action", "transformer"}
  IN IF p = q THEN ev.calls[k].fn \in first /\ ev.calls[l].fn \in last
     ELSE IF IsPrefix(p, q) THEN ev.calls[k].fn \in first
     ELSE IF IsPrefix(q, p) THEN ev.calls[l].fn \in last
     ELSE LET i == CHOOSE j \in 1..Len(p) :
                       /\ p[j] # q[j]
                       /\ SubSeq(p, 1, j - 1) = SubSeq(q, 1, j - 1)
          IN p[i] < q[i]

(***************************************************************************)
(* C26: user functions are invoked in the left-to-right, depth-first       *)
(* order of the tree: every function of child i of an AllOf, FirstOf or    *)
(* ChainOf before any function of a child j > i, the matcher of a          *)
(* Conditional and the mapper of a ScopedFacts before anything in the      *)
(* child, the transformer of a Transformed node after everything in its    *)
(* child.                                                                  *)
(***************************************************************************)
C26_InvocationOrder ==
  \A k, l \in DOMAIN ev.calls : k < l => InTreeOrder(k, l)

\* an AllOf of a Transformed rule and a plain rule has run: the matcher and
\* the action inside the first child, its transformer, then the second child
C26_Witness ==
  /\ fn # "none"
  /\ boomAt = 0
  /\ rule.type = "all"
  /\ Len(rule.rules) = 2
  /\ rule.rules[1].type = "transformed"
  /\ Len(ev.calls) = 5
  /\ ev.calls[2].path = <<1, 1>>
  /\ ev.calls[3].fn = "transformer"
  /\ ev.calls[4].path = <<2>>

(***************************************************************************)
(* C27: during one evaluation the matcher of each plain rule of the tree   *)
(* is invoked at most once and its action at most once, the action only    *)
(* directly after the matcher of the same rule returned true on the same   *)
(* facts and value.                                                        *)
(***************************************************************************)
C27_PlainAtMostOnce ==
  /\ \A k, l \in DOMAIN ev.calls :
       (/\ ev.calls[k].path = ev.calls[l].path
        /\ ev.calls[k].fn = ev.calls[l].fn
        /\ ev.calls[k].fn \in {"matcher", "action"}) => k = l
  /\ \A k \in DOMAIN ev.calls :
       ev.calls[k].fn = "action" =>
         /\ k > 1
         /\ ev.calls[k - 1].fn = "matcher"
         /\ ev.calls[k - 1].path = ev.calls[k].path
         /\ ev.calls[k - 1].args = ev.calls[k].args
         /\ ApplyMatcher(NodeAt(rule, ev.calls[k].path).matcher,
                         ev.calls[k].args[1], ev.calls[k].args[2])

\* two plain rules of a FirstOf under an AllOf: the first was asked and did
\* not match, the second matched and its action was invoked
C27_Witness ==
  /\ fn # "none"
  /\ boomAt = 0
  /\ Len(ev.calls) = 3
  /\ ev.calls[1].fn = "matcher"
  /\ ev.calls[2].fn = "matcher"
  /\ ev.calls[3].fn = "action"
  /\ ev.calls[3].path = ev.calls[2].path
  /\ ev.calls[1].path # ev.calls[2].path

\* the functions invoked when the matchers of a list are called in list order
\* from the i-th on, up to and including the first that returns stopOn
RECURSIVE CallsInOrder(_, _, _)
CallsInOrder(ms, i, stopOn) ==
  IF i > Len(ms) THEN <<>>
  ELSE callMatcher(ms[i], mfacts, mvalue, <<>>, <<i>>).calls
       \o (IF Returns(ms[i]) = stopOn THEN <<>> ELSE CallsInOrder(ms, i + 1, stopOn))

(***************************************************************************)
(* C30: one calls its matchers in list order and calls none after the      *)
(* first that returns true; all calls its matchers in list order and       *)
(* calls none after the first that returns false.                          *)
(***************************************************************************)
C30_ShortCircuit ==
  LET ms == matcherFn.matchers
      stopOn == (matcherFn.type = "one")
  IN (mret # Null /\ matcherFn.type \in {"one", "all"}) =>
       /\ mcalls = CallsInOrder(ms, 1, stopOn)
       /\ \A k, l \in DOMAIN mcalls : k < l => mcalls[k][1] <= mcalls[l][1]
       /\ \A i \in DOMAIN ms :
            Returns(ms[i]) = stopOn => \A k \in DOMAIN mcalls : mcalls[k][1] <= i

\* one of a false matcher, a true matcher and a third matcher was called: the
\* first two were asked in this order, the third was not
C30_Witness ==
  /\ matcherFn.type = "one"
  /\ Len(matcherFn.matchers) = 3
  /\ mret = Some(TRUE)
  /\ mcalls = <<<<1>>, <<2>>>>

\* what detailedRun gives caller p when it evaluates the tree alone, the
\* b-th invocation of a user function raising
Alone(p, b) == detailedRun(rule, ProcFacts[p], ProcValues[p], b)

\* the evaluation of caller p ended as it ends alone: with the same state,
\* or with the same failure, after the same number of invocations
EndsAsAlone(p) ==
  LET alone == Alone(p, ctl[p].err.at)
  IN /\ ctl[p].err = alone.err
     /\ ctl[p].err = NoError => Some(ctl[p].state) = alone.result
     /\ ctl[p].ncalls = Len(alone.trace.calls)

(***************************************************************************)
(* C22: two evaluations of one tree, with different facts and different    *)
(* initial values, whose steps interleave in any way: each ends with the   *)
(* result it has when it runs alone, and no step of either changes the     *)
(* tree.                                                                   *)
(***************************************************************************)
C22_InterleavedAsAlone ==
  /\ [](\A p \in Procs : ctl[p].mode = "done" => EndsAsAlone(p))
  /\ [][rule' = rule]_vars

\* caller 1 got a match while caller 2, with other facts and another value,
\* was in the middle of its evaluation of the same tree, two invocations made
C22_Witness ==
  /\ ctl[1].mode = "done"
  /\ ctl[1].among
  /\ ctl[1].err = NoError
  /\ ctl[1].state.foundMatch
  /\ ctl[2].mode = "ret"
  /\ ctl[2].ncalls >= 2
  /\ Len(stack[2]) >= 1

\* the runHelp calls of the evaluation of caller p entered no node twice
NoRevisit(p) ==
  LET v == ctl[p].visited
  IN \A i, j \in DOMAIN v : i < j => v[i] # v[j]

\* the evaluation of caller p ended: no call is left waiting, and it ended
\* with a state or with the failure a user function raised
Ended(p) ==
  /\ ctl[p].mode = "done"
  /\ stack[p] = <<>>
  /\ ctl[p].err = NoError \/ ctl[p].err = Boom(ctl[p].ncalls)

(***************************************************************************)
(* C28: every evaluation of a tree, its user functions each returning or   *)
(* raising, that has started ends, with a final state or with a raised     *)
(* failure, and it enters no node of the tree more than once.              *)
(***************************************************************************)
C28_Terminates ==
  /\ [](NoRevisit(1) /\ (ctl[1].mode = "done" => Ended(1)))
  /\ (ctl[1].mode \in {"eval", "ret"}) ~> Ended(1)

\* an evaluation of a tree of three nodes ended with a state, and the next
\* one of the same tree ended with a failure after entering all three nodes
C28_Witness ==
  /\ Ended(1)
  /\ ctl[1].prev # Null
  /\ ctl[1].err # NoError
  /\ Len(ctl[1].visited) = 3

(***************************************************************************)
(* C29: a caller that evaluates the tree again and again with the same     *)
(* facts and the same initial value, whatever evaluations of the tree the  *)
(* other caller ran or is running in between, gets each time the state     *)
(* these inputs give, the state its last evaluation returned, and no       *)
(* evaluation changes the tree.                                            *)
(***************************************************************************)
C29_SameResultEachTime ==
  /\ [](\A p \in Procs :
          (ctl[p].mode = "done" /\ ctl[p].err = NoError) =>
            /\ Some(ctl[p].state) = Alone(p, 0).result
            /\ ctl[p].prev # Null => Some(ctl[p].state) = ctl[p].prev)
  /\ [][NextShared => rule' = rule]_vars

\* caller 1 evaluated the tree again while caller 2 was in the middle of an
\* evaluation of it, and got the same match again
C29_Witness ==
  /\ ctl[1].mode = "done"
  /\ ctl[1].err = NoError
  /\ ctl[1].prev = Some(ctl[1].state)
  /\ ctl[1].state.foundMatch
  /\ ctl[1].among
  /\ ctl[2].mode = "ret"
  /\ ctl[2].ncalls >= 1

====
